---- MODULE Spec2Model ----
(***************************************************************************)
(* The request processing pipeline of backend/middleware.py: the           *)
(* middleware stack that setup_middleware registers on the application     *)
(* (CORS, trusted host, security headers, logging, rate limiting), the     *)
(* process-wide rate_limit_store, and the requests that travel through     *)
(* the stack to the endpoint and back.                                     *)
(*                                                                         *)
(* Scheduling.  Every dispatch method is a coroutine on one event loop:    *)
(* code between two awaits runs without interruption.  A request therefore *)
(* takes two steps: Receive runs it inward through the stack until a stage *)
(* answers it or it suspends in the endpoint (the innermost await), and    *)
(* HandlerReturn / HandlerRaise resume it with the endpoint's outcome and  *)
(* run it outward to the client.  The stages' code after call_next touches *)
(* only the request's own response, except RateLimitMiddleware, which      *)
(* reads rate_limit_store when it resumes; the endpoint may take any time, *)
(* so every store state that resumption can observe is observed.           *)
(***************************************************************************)
EXTENDS Integers, Sequences, FiniteSets, Bags, TLC

\* ---------------------------------------------------------------- bounds
MaxLimit == 2
MaxInFlight == 2
MaxTicks == 2

\* ------------------------------------------------------ program constants
window_size == 60
retry_after == 60
HTTP_429_TOO_MANY_REQUESTS == 429

\* The clock advances in steps of half a window, so that a timestamp is seen
\* inside the window (one step old) and exactly window_size old (two steps).
TickLen == window_size \div 2

\* ----------------------------------------------------------------- inputs
Keys == {"1.2.3.4", "5.6.7.8"}
Sites == {"app.example", "evil.example"}
Methods == {"GET", "OPTIONS"}
Exceptions == {"ValueError", "RuntimeError"}
allowed_origins == {"app.example"}
allowed_hosts == {"*"}
HandlerHeaders ==
    {<<>>,
     [h \in {"server", "X-Frame-Options"} |->
        IF h = "server" THEN "uvicorn" ELSE "SAMEORIGIN"]}

SecurityHeaders ==
    [h \in {"X-Content-Type-Options", "X-Frame-Options", "X-XSS-Protection",
            "Referrer-Policy", "Content-Security-Policy"} |->
        CASE h = "X-Content-Type-Options" -> "nosniff"
          [] h = "X-Frame-Options" -> "DENY"
          [] h = "X-XSS-Protection" -> "1; mode=block"
          [] h = "Referrer-Policy" -> "strict-origin-when-cross-origin"
          [] h = "Content-Security-Policy" -> "default-src 'self'"]

VARIABLES
    clients,              \* the requests that clients send: address, site, method
    failures,             \* the exceptions that endpoints raise
    debug,                \* settings.debug
    user_middleware,      \* the application's middleware, outermost first
    requests_per_minute,  \* RateLimitMiddleware.requests_per_minute
    now,                  \* time.time()
    rate_limit_store,     \* defaultdict(list): client_ip -> timestamps
    inflight,             \* bag of requests suspended in the endpoint
    last,                 \* the outcome the latest step delivered to a client, if any,
                          \* with its history (log, trail of stages, endpoint)
    chk,                  \* history: the rate-limit check of the latest step, if any,
                          \*          with what it found (prior, concurrent, others)
    recent,               \* history: per key, admissions inside the window ending now
    rejected_at           \* history: per key, the time of its latest check if that
                          \*          check was answered 429, else Unset

vars == <<clients, failures, debug, user_middleware, requests_per_minute, now,
          rate_limit_store, inflight, last, chk, recent, rejected_at>>
config == <<clients, failures, debug, user_middleware, requests_per_minute>>

\* ------------------------------------------------------------- data model
Unset == 0 - 1
Nothing == [type |-> "none"]
Pending == [type |-> "pending"]
Response(status, headers, body) ==
    [type |-> "response", status |-> status, headers |-> headers, body |-> body]
Raised(exc) == [type |-> "exception", exc |-> exc]
\* history of a delivered outcome: the endpoint returned (Nothing: never called)
Returned == [type |-> "returned"]
\* history of a delivered outcome: the caller abandoned the suspended request
Abandoned == [type |-> "abandoned"]

IsResponse(out) == out.type = "response"
IsException(out) == out.type = "exception"

\* response.headers[name] = value
SetHeader(resp, name, value) ==
    [resp EXCEPT !.headers = (name :> value) @@ resp.headers]
\* del response.headers[name]
DelHeader(resp, name) ==
    [resp EXCEPT !.headers = [h \in DOMAIN resp.headers \ {name} |-> resp.headers[h]]]

\* defaultdict(list): reading a missing key yields [] (and creates the entry)
Get(store, key) == IF key \in DOMAIN store THEN store[key] ELSE <<>>
\* Mutant: a key whose list is empty is dropped from the store.
PutUnlessEmpty(store, key, value) ==
    [k \in (DOMAIN store \cup {key}) \ (IF value = <<>> THEN {key} ELSE {}) |->
        IF k = key THEN value ELSE store[k]]

Put(store, key, value) ==
    [k \in DOMAIN store \cup {key} |-> IF k = key THEN value ELSE store[k]]

\* ------------------------------------------------------- setup_middleware
\* app.add_middleware puts the class at the head of the application's list of
\* middleware, and the head of the list is the outermost layer: the stage
\* added last sees the request first.
add_middleware(stack, cls) == <<cls>> \o stack

\* Mutant: TrustedHostMiddleware is registered whatever settings.debug is.
setup_middleware_always(dbg) ==
    LET s1 == add_middleware(<<>>, "CORSMiddleware")
        s2 == add_middleware(s1, "TrustedHostMiddleware")
        s3 == add_middleware(s2, "SecurityHeadersMiddleware")
        s4 == add_middleware(s3, "LoggingMiddleware")
    IN  add_middleware(s4, "RateLimitMiddleware")

setup_middleware(dbg) ==
    LET s1 == add_middleware(<<>>, "CORSMiddleware")
        s2 == IF ~dbg THEN add_middleware(s1, "TrustedHostMiddleware") ELSE s1
        s3 == add_middleware(s2, "SecurityHeadersMiddleware")
        s4 == add_middleware(s3, "LoggingMiddleware")
    IN  add_middleware(s4, "RateLimitMiddleware")

Stack == user_middleware

\* The classes in the order in which setup_middleware registers them.
Registered(dbg) ==
    <<"CORSMiddleware">>
    \o (IF ~dbg THEN <<"TrustedHostMiddleware">> ELSE <<>>)
    \o <<"SecurityHeadersMiddleware", "LoggingMiddleware", "RateLimitMiddleware">>

\* ---------------------------------------------------- RateLimitMiddleware
\* Mutant: a limit of 0 is taken to mean "no limit".
LimitExceededUnlessZero(times) ==
    requests_per_minute > 0 /\ Len(times) >= requests_per_minute

\* Mutant: every request is accounted under one key.
client_ip_shared(rq) == "1.2.3.4"

client_ip(rq) == rq.client_ip

\* Mutant: fixed calendar buckets instead of a sliding window.
PruneFixedBucket(times, current_time) ==
    SelectSeq(times, LAMBDA req_time :
                        req_time \div window_size = current_time \div window_size)

\* Mutant: a timestamp exactly window_size old is kept.
PruneInclusive(times, current_time) ==
    SelectSeq(times, LAMBDA req_time : current_time - req_time <= window_size)

\* [t for t in rate_limit_store[client_ip] if current_time - t < window_size]
Prune(times, current_time) ==
    SelectSeq(times, LAMBDA req_time : current_time - req_time < window_size)

\* Mutant: the comparison is strict, one request too many passes.
LimitExceededStrict(times) == Len(times) > requests_per_minute

\* Mutant: the request being checked is counted before it is admitted.
LimitExceededEarly(times) == Len(times) + 1 >= requests_per_minute

LimitExceeded(times) == Len(times) >= requests_per_minute

\* Mutant: retry_after reports the limit instead of the window.
RateLimitBodyLimit ==
    [error |-> "Rate limit exceeded",
     message |-> "Too many requests. Limit: " \o ToString(requests_per_minute)
                   \o " per minute",
     retry_after |-> requests_per_minute]

RateLimitBody ==
    [error |-> "Rate limit exceeded",
     message |-> "Too many requests. Limit: " \o ToString(requests_per_minute)
                   \o " per minute",
     retry_after |-> retry_after]

\* Mutant: the timestamp is inserted at the head of the list.
RateLimitBeforeInsertFirst(c) ==
    LET ip == client_ip(c.rq)
        current_time == now
        pruned == Prune(Get(c.store, ip), current_time)
        cleaned == [c EXCEPT !.store = Put(c.store, ip, pruned),
                             !.rq.current_time = current_time]
    IN  IF LimitExceeded(pruned)
        THEN [cleaned EXCEPT
                !.log = Append(@, [by |-> "RateLimitMiddleware", kind |-> "warning"]),
                !.out = Response(HTTP_429_TOO_MANY_REQUESTS, <<>>, RateLimitBody)]
        ELSE [cleaned EXCEPT !.store = Put(@, ip, <<current_time>> \o pruned)]

\* Mutant: the timestamp is appended before the limit is checked, so that
\* rejected requests are recorded too.
RateLimitBeforeRecordFirst(c) ==
    LET ip == client_ip(c.rq)
        current_time == now
        pruned == Prune(Get(c.store, ip), current_time)
        cleaned == [c EXCEPT !.store = Put(c.store, ip, Append(pruned, current_time)),
                             !.rq.current_time = current_time]
    IN  IF LimitExceeded(pruned)
        THEN [cleaned EXCEPT
                !.log = Append(@, [by |-> "RateLimitMiddleware", kind |-> "warning"]),
                !.out = Response(HTTP_429_TOO_MANY_REQUESTS, <<>>, RateLimitBody)]
        ELSE cleaned

RateLimitBefore(c) ==
    LET ip == client_ip(c.rq)
        current_time == now
        pruned == Prune(Get(c.store, ip), current_time)
        cleaned == [c EXCEPT !.store = Put(c.store, ip, pruned),
                             !.rq.current_time = current_time]
    IN  IF LimitExceeded(pruned)
        THEN [cleaned EXCEPT
                !.log = Append(@, [by |-> "RateLimitMiddleware", kind |-> "warning"]),
                !.out = Response(HTTP_429_TOO_MANY_REQUESTS, <<>>, RateLimitBody)]
        ELSE [cleaned EXCEPT !.store = Put(@, ip, Append(pruned, current_time))]

\* Mutant: the list is pruned again, at the time of the response, before it is
\* counted.
RateLimitAfterPruned(c) ==
    IF ~IsResponse(c.out) THEN c
    ELSE LET ip == client_ip(c.rq)
             stored == Prune(Get(c.store, ip), now)
             r1 == SetHeader(c.out, "X-RateLimit-Limit", ToString(requests_per_minute))
             r2 == SetHeader(r1, "X-RateLimit-Remaining",
                             ToString(requests_per_minute - Len(stored)))
             r3 == SetHeader(r2, "X-RateLimit-Reset",
                             ToString(c.rq.current_time + window_size))
         IN  [c EXCEPT !.store = Put(c.store, ip, stored), !.out = r3]

\* Mutant: when call_next raises, the request's timestamp is taken back.
RateLimitAfterRollback(c) ==
    LET ip == client_ip(c.rq)
        stored == Get(c.store, ip)
    IN  IF ~IsResponse(c.out)
        THEN [c EXCEPT !.store = Put(c.store, ip,
                  IF stored # <<>> /\ stored[Len(stored)] = c.rq.current_time
                  THEN SubSeq(stored, 1, Len(stored) - 1) ELSE stored)]
        ELSE LET r1 == SetHeader(c.out, "X-RateLimit-Limit",
                                 ToString(requests_per_minute))
                 r2 == SetHeader(r1, "X-RateLimit-Remaining",
                                 ToString(requests_per_minute - Len(stored)))
                 r3 == SetHeader(r2, "X-RateLimit-Reset",
                                 ToString(c.rq.current_time + window_size))
             IN  [c EXCEPT !.store = Put(c.store, ip, stored), !.out = r3]

RateLimitAfter(c) ==
    IF ~IsResponse(c.out) THEN c
    ELSE LET ip == client_ip(c.rq)
             stored == Get(c.store, ip)
             r1 == SetHeader(c.out, "X-RateLimit-Limit", ToString(requests_per_minute))
             r2 == SetHeader(r1, "X-RateLimit-Remaining",
                             ToString(requests_per_minute - Len(stored)))
             r3 == SetHeader(r2, "X-RateLimit-Reset",
                             ToString(c.rq.current_time + window_size))
         IN  [c EXCEPT !.store = Put(c.store, ip, stored), !.out = r3]

\* ---------------------------------------------- SecurityHeadersMiddleware
\* response.headers[h] = values[h], for every h of values
SetHeaders(resp, values) == [resp EXCEPT !.headers = values @@ resp.headers]

SecurityHeadersBefore(c) == c

\* Mutant: a header that is already present is extended, not overwritten.
SecurityHeadersAfterAppend(c) ==
    IF ~IsResponse(c.out) THEN c
    ELSE LET merged == [h \in DOMAIN SecurityHeaders \cup DOMAIN c.out.headers |->
                          IF h \notin DOMAIN SecurityHeaders THEN c.out.headers[h]
                          ELSE IF h \notin DOMAIN c.out.headers THEN SecurityHeaders[h]
                          ELSE c.out.headers[h] \o ", " \o SecurityHeaders[h]]
             r1 == [c.out EXCEPT !.headers = merged]
         IN  [c EXCEPT !.out = IF "server" \in DOMAIN r1.headers
                                THEN DelHeader(r1, "server") ELSE r1]

SecurityHeadersAfter(c) ==
    IF ~IsResponse(c.out) THEN c
    ELSE LET r1 == SetHeaders(c.out, SecurityHeaders)
         IN  [c EXCEPT !.out = IF "server" \in DOMAIN r1.headers
                                THEN DelHeader(r1, "server") ELSE r1]

\* ------------------------------------------------------ LoggingMiddleware
LoggingBefore(c) ==
    [c EXCEPT !.rq.start_time = now,
              !.log = Append(@, [by |-> "LoggingMiddleware", kind |-> "Request"])]

\* Mutant: the except branch logs and does not raise again: dispatch returns None.
LoggingAfterDrop(c) ==
    LET process_time == now - c.rq.start_time
    IN  IF IsResponse(c.out)
        THEN [c EXCEPT
                !.log = Append(@, [by |-> "LoggingMiddleware", kind |-> "Response",
                                   status |-> c.out.status, took |-> process_time]),
                !.out = SetHeader(c.out, "X-Process-Time", ToString(process_time))]
        ELSE [c EXCEPT
                !.log = Append(@, [by |-> "LoggingMiddleware", kind |-> "Error",
                                   error |-> c.out.exc, took |-> process_time]),
                !.out = Nothing]

\* Mutant: the except branch answers 500 instead of raising again.
LoggingAfterSwallow(c) ==
    LET process_time == now - c.rq.start_time
    IN  IF IsResponse(c.out)
        THEN [c EXCEPT
                !.log = Append(@, [by |-> "LoggingMiddleware", kind |-> "Response",
                                   status |-> c.out.status, took |-> process_time]),
                !.out = SetHeader(c.out, "X-Process-Time", ToString(process_time))]
        ELSE [c EXCEPT
                !.log = Append(@, [by |-> "LoggingMiddleware", kind |-> "Error",
                                   error |-> c.out.exc, took |-> process_time]),
                !.out = Response(500, <<>>, [detail |-> "Internal server error"])]

LoggingAfter(c) ==
    LET process_time == now - c.rq.start_time
    IN  IF IsResponse(c.out)
        THEN [c EXCEPT
                !.log = Append(@, [by |-> "LoggingMiddleware", kind |-> "Response",
                                   status |-> c.out.status, took |-> process_time]),
                !.out = SetHeader(c.out, "X-Process-Time", ToString(process_time))]
        ELSE [c EXCEPT
                !.log = Append(@, [by |-> "LoggingMiddleware", kind |-> "Error",
                                   error |-> c.out.exc, took |-> process_time])]

\* ---------------------------------- TrustedHostMiddleware, CORSMiddleware
TrustedHostBefore(c) ==
    IF "*" \in allowed_hosts \/ c.rq.site \in allowed_hosts THEN c
    ELSE [c EXCEPT !.out = Response(400, <<>>, [detail |-> "Invalid host header"])]

TrustedHostAfter(c) == c

CORSBefore(c) ==
    IF c.rq.method # "OPTIONS" THEN c
    ELSE IF c.rq.site \in allowed_origins
         THEN [c EXCEPT !.out = Response(200,
                   [h \in {"access-control-allow-origin"} |-> c.rq.site],
                   [detail |-> "OK"])]
         ELSE [c EXCEPT !.out = Response(400, <<>>,
                   [detail |-> "Disallowed CORS origin"])]

CORSAfter(c) ==
    IF IsResponse(c.out) /\ c.rq.site \in allowed_origins
    THEN [c EXCEPT !.out = SetHeader(c.out, "access-control-allow-origin", c.rq.site)]
    ELSE c

\* ------------------------------------------------------------- the stack
\* A stage's code up to its call_next (out is set when it answers itself).
Before(stage, c) ==
    CASE stage = "RateLimitMiddleware" -> RateLimitBefore(c)
      [] stage = "LoggingMiddleware" -> LoggingBefore(c)
      [] stage = "SecurityHeadersMiddleware" -> SecurityHeadersBefore(c)
      [] stage = "TrustedHostMiddleware" -> TrustedHostBefore(c)
      [] stage = "CORSMiddleware" -> CORSBefore(c)

\* A stage's code after its call_next returned or raised.
After(stage, c) ==
    CASE stage = "RateLimitMiddleware" -> RateLimitAfter(c)
      [] stage = "LoggingMiddleware" -> LoggingAfter(c)
      [] stage = "SecurityHeadersMiddleware" -> SecurityHeadersAfter(c)
      [] stage = "TrustedHostMiddleware" -> TrustedHostAfter(c)
      [] stage = "CORSMiddleware" -> CORSAfter(c)

\* history: `stage` sees the request or the response of c (way: "request" or
\* "response")
Saw(c, way, stage) == [c EXCEPT !.trail[way] = Append(@, stage)]

\* the element of a set of one element (binds a stage's result once)
Only(S) == CHOOSE v \in S : TRUE

\* The outcome of stage i+1 travels outward through stages i, i-1, ..., 1.
RECURSIVE Outward(_, _)
Outward(i, c) ==
    IF i = 0 THEN c
    ELSE Only({Outward(i - 1, a) : a \in {After(Stack[i], Saw(c, "response", Stack[i]))}})

\* Mutant: a stage that answers calls its continuation all the same.
RECURSIVE InwardThrough(_, _)
InwardThrough(i, c) ==
    IF i > Len(Stack) THEN [c EXCEPT !.out = Pending]
    ELSE Only({InwardThrough(i + 1, b) :
                 b \in {Before(Stack[i], Saw(c, "request", Stack[i]))}})

\* The request enters stage i; a stage that answers sends its response outward
\* through the stages around it; past the last stage the endpoint is awaited.
RECURSIVE Inward(_, _)
Inward(i, c) ==
    IF i > Len(Stack) THEN [c EXCEPT !.out = Pending]
    ELSE Only({IF b.out # Nothing THEN Outward(i - 1, b) ELSE Inward(i + 1, b) :
                 b \in {Before(Stack[i], Saw(c, "request", Stack[i]))}})

\* ---------------------------------------------------------------- history
Is429(out) == IsResponse(out) /\ out.status = HTTP_429_TOO_MANY_REQUESTS

\* t lies in the window (end - window_size, end]
InWindow(t, end) == t <= end /\ end - t < window_size

RECURSIVE Copies(_)
\* the number of requests in flight among the kinds of request in S
Copies(S) ==
    IF S = {} THEN 0
    ELSE LET x == CHOOSE y \in S : TRUE
         IN  CopiesIn(x, inflight) + Copies(S \ {x})

\* requests of `ip` in flight whose check lies in the window ending at `end`
InFlightOf(ip, end) ==
    Copies({x \in BagToSet(inflight) :
              x.rq.client_ip = ip /\ InWindow(x.rq.current_time, end)})

\* ---------------------------------------------------------------- actions
Profiles(ips, sites, methods) ==
    {[client_ip |-> ip, site |-> site, method |-> method] :
        ip \in ips, site \in sites, method \in methods}

\* The process after start-up: setup_middleware has run, nothing is stored.
Boot(dbg, limit, traffic, excs) ==
    /\ clients = traffic
    /\ failures = excs
    /\ debug = dbg
    /\ user_middleware = setup_middleware(dbg)
    /\ requests_per_minute = limit
    /\ now = 0
    /\ rate_limit_store = <<>>
    /\ inflight = EmptyBag
    /\ last = Nothing
    /\ chk = Nothing
    /\ recent = [k \in Keys |-> <<>>]
    /\ rejected_at = [k \in Keys |-> Unset]

\* One client address sends every kind of request.
Init ==
    \E dbg \in BOOLEAN, limit \in 0..MaxLimit :
        Boot(dbg, limit, Profiles({"1.2.3.4"}, Sites, Methods), Exceptions)

\* Two client addresses send plain requests from the allowed site; endpoints
\* fail in one way.
InitKeys ==
    \E limit \in 0..MaxLimit :
        Boot(FALSE, limit, Profiles(Keys, {"app.example"}, {"GET"}), {"ValueError"})

\* The application called with a new request: the stack from its outermost stage.
Dispatch(ip, site, method) ==
    Inward(1, [rq |-> [client_ip |-> ip, site |-> site, method |-> method,
                       current_time |-> Unset, start_time |-> Unset],
               store |-> rate_limit_store, log |-> <<>>, out |-> Nothing,
               trail |-> [request |-> <<>>, response |-> <<>>]])

\* A request arrives and runs inward until it is answered or suspends.
Receive(ip, site, method) ==
    \E c \in {Dispatch(ip, site, method)} :
      \E allowed \in {~Is429(c.out)} :
        /\ c.out = Pending => BagCardinality(inflight) < MaxInFlight
        /\ rate_limit_store' = c.store
        /\ IF c.out = Pending
           THEN /\ inflight' = inflight (+) SetToBag({[rq |-> c.rq, log |-> c.log,
                                                          trail |-> c.trail]})
                /\ last' = Nothing
           ELSE /\ inflight' = inflight
                /\ last' = [rq |-> c.rq, out |-> c.out, log |-> c.log,
                            trail |-> c.trail, handler |-> Nothing]
        /\ IF c.rq.current_time # Unset
           THEN /\ chk' = [type |-> "check", client_ip |-> ip, t |-> now,
                           allowed |-> allowed, prior |-> Len(recent[ip]),
                           concurrent |-> InFlightOf(ip, now),
                           rejected_at |-> rejected_at[ip],
                           others |-> [k \in DOMAIN rate_limit_store \ {ip} |->
                                         rate_limit_store[k]]]
                /\ recent' = IF allowed
                             THEN [recent EXCEPT ![ip] = Append(@, now)]
                             ELSE recent
                /\ rejected_at' = [rejected_at EXCEPT
                                     ![ip] = IF allowed THEN Unset ELSE now]
           ELSE /\ chk' = Nothing
                /\ UNCHANGED <<recent, rejected_at>>
        /\ UNCHANGED <<config, now>>

\* The endpoint of a suspended request finishes with `outcome`, which runs
\* outward through every stage to the client.
Resume(x, outcome) ==
    \E c \in {Outward(Len(Stack), [rq |-> x.rq, store |-> rate_limit_store,
                                    log |-> x.log, out |-> outcome,
                                    trail |-> x.trail])} :
        /\ rate_limit_store' = c.store
        /\ inflight' = inflight (-) SetToBag({x})
        /\ last' = [rq |-> c.rq, out |-> c.out, log |-> c.log, trail |-> c.trail,
                    handler |-> IF IsException(outcome) THEN outcome ELSE Returned]
        /\ chk' = Nothing
        /\ UNCHANGED <<config, now, recent, rejected_at>>

HandlerReturn(x, headers) ==
    Resume(x, Response(200, headers, [detail |-> "OK"]))

HandlerRaise(x, exc) == Resume(x, Raised(exc))

\* The caller abandons a suspended request: its task is cancelled at the await
\* it is suspended in, and CancelledError leaves every dispatch at its
\* call_next.  No stage runs code on it: RateLimitMiddleware has no handler
\* around call_next, and the `except Exception` of LoggingMiddleware does not
\* catch CancelledError, which is a BaseException.
Abandon(x) ==
    /\ inflight' = inflight (-) SetToBag({x})
    /\ last' = [rq |-> x.rq, out |-> Raised("CancelledError"), log |-> x.log,
                trail |-> x.trail, handler |-> Abandoned]
    /\ chk' = Nothing
    /\ UNCHANGED <<config, now, rate_limit_store, recent, rejected_at>>

\* The clock advances; admissions that left the window ending now are dropped
\* from the history.
Tick ==
    /\ now < MaxTicks * TickLen
    /\ now' = now + TickLen
    /\ recent' = [k \in Keys |->
                    SelectSeq(recent[k], LAMBDA t : InWindow(t, now + TickLen))]
    /\ last' = Nothing
    /\ chk' = Nothing
    /\ UNCHANGED <<config, rate_limit_store, inflight, rejected_at>>

Next ==
    \/ \E p \in clients : Receive(p.client_ip, p.site, p.method)
    \/ \E x \in BagToSet(inflight), headers \in HandlerHeaders : HandlerReturn(x, headers)
    \/ \E x \in BagToSet(inflight), exc \in failures : HandlerRaise(x, exc)
    \/ \E x \in BagToSet(inflight) : Abandon(x)
    \/ Tick

Spec == Init /\ [][Next]_vars

SpecKeys == InitKeys /\ [][Next]_vars

\* One client address sends plain and preflight requests from the allowed
\* site; endpoints fail in one way.
InitFair ==
    \E limit \in 0..MaxLimit :
        Boot(FALSE, limit, Profiles({"1.2.3.4"}, {"app.example"}, Methods),
             {"ValueError"})

\* The requests that InitFair's clients can have suspended in the endpoint:
\* plain requests, checked and logged at one time of the clock.
Suspendable ==
    {[rq |-> [client_ip |-> p.client_ip, site |-> p.site, method |-> p.method,
              current_time |-> i * TickLen, start_time |-> i * TickLen],
      log |-> <<[by |-> "LoggingMiddleware", kind |-> "Request"]>>,
      trail |-> [request |-> setup_middleware(FALSE), response |-> <<>>]] :
        p \in Profiles({"1.2.3.4"}, {"app.example"}, {"GET"}), i \in 0..MaxTicks}

\* The endpoint of a suspended request finishes: it returns or it raises.
HandlerFinishes(x) ==
    /\ x \in BagToSet(inflight)
    /\ \/ \E headers \in HandlerHeaders : HandlerReturn(x, headers)
       \/ \E exc \in failures : HandlerRaise(x, exc)

\* Every endpoint terminates; clients and the clock are under no obligation.
SpecFair ==
    InitFair /\ [][Next]_vars /\ \A x \in Suspendable : WF_vars(HandlerFinishes(x))

\* ================================================================= claims

HasSecurityHeaders(resp) ==
    \A h \in DOMAIN SecurityHeaders :
        h \in DOMAIN resp.headers /\ resp.headers[h] = SecurityHeaders[h]

\* the records LoggingMiddleware wrote when the request completed
CompletionRecords(log) ==
    {i \in DOMAIN log : log[i].by = "LoggingMiddleware"
                         /\ log[i].kind \in {"Response", "Error"}}

\* C1: requests of one key that are in flight together and were checked inside
\* one window never number more than requests_per_minute; a check that finds
\* requests_per_minute of them in flight is answered 429, and a check is answered
\* 429 only when exactly requests_per_minute admissions lie in its window.
C1_NoOverAdmission ==
    /\ \A x \in BagToSet(inflight) :
          InFlightOf(x.rq.client_ip, x.rq.current_time) <= requests_per_minute
    /\ chk # Nothing =>
          /\ chk.concurrent >= requests_per_minute => ~chk.allowed
          /\ ~chk.allowed => chk.prior = requests_per_minute

C1_Witness ==
    /\ chk # Nothing
    /\ ~chk.allowed
    /\ requests_per_minute = MaxLimit
    /\ chk.concurrent = requests_per_minute
    /\ InFlightOf(chk.client_ip, now) = requests_per_minute

\* C2: for every key, the admissions whose check time lies in the window
\* (now - window_size, now] number at most requests_per_minute, at every time.
C2_SlidingWindowBound ==
    \A k \in Keys : Len(recent[k]) <= requests_per_minute

C2_Witness ==
    \E k \in Keys :
        /\ requests_per_minute = MaxLimit
        /\ now >= window_size
        /\ Len(recent[k]) = requests_per_minute
        /\ recent[k][1] < recent[k][Len(recent[k])]

\* C3: a check that finds fewer than requests_per_minute admissions of its key
\* in its window is admitted, so N <= requests_per_minute requests of a fresh
\* key inside one window are admitted in full.
C3_AdmittedUpToLimit ==
    chk # Nothing /\ chk.prior < requests_per_minute => chk.allowed

C3_Witness ==
    /\ chk # Nothing
    /\ chk.allowed
    /\ requests_per_minute = MaxLimit
    /\ chk.prior + 1 = requests_per_minute
    /\ Len(recent[chk.client_ip]) = requests_per_minute

\* C4: a check that finds requests_per_minute admissions of its key in its
\* window is answered 429 with retry_after equal to window_size.
C4_RejectedOverLimit ==
    chk # Nothing /\ chk.prior >= requests_per_minute =>
        /\ ~chk.allowed
        /\ last # Nothing
        /\ IsResponse(last.out)
        /\ last.out.status = 429
        /\ last.out.body.error = "Rate limit exceeded"
        /\ last.out.body.retry_after = window_size

C4_Witness ==
    /\ chk # Nothing
    /\ requests_per_minute = MaxLimit
    /\ chk.prior = requests_per_minute
    /\ last # Nothing
    /\ Is429(last.out)

\* C5: with requests_per_minute > 0, the first check of a key at least
\* window_size after that key was answered 429 is admitted.
C5_ReAdmission ==
    (/\ chk # Nothing
     /\ requests_per_minute > 0
     /\ chk.rejected_at # Unset
     /\ chk.t >= chk.rejected_at + window_size) => chk.allowed

C5_Witness ==
    /\ chk # Nothing
    /\ requests_per_minute = MaxLimit
    /\ chk.rejected_at # Unset
    /\ chk.t = chk.rejected_at + window_size
    /\ chk.allowed

\* C6: a rate-limit check of one key leaves the entry of every other key in
\* rate_limit_store as it was (present or absent, with the same timestamps), and
\* its outcome depends on the admissions of its own key alone: it is admitted
\* exactly when fewer than requests_per_minute of them lie in its window.
C6_PerKeyIndependence ==
    chk # Nothing =>
        /\ \A other \in Keys \ {chk.client_ip} :
              /\ other \in DOMAIN rate_limit_store <=> other \in DOMAIN chk.others
              /\ Get(rate_limit_store, other) = Get(chk.others, other)
        /\ chk.allowed <=> chk.prior < requests_per_minute

C6_Witness ==
    /\ chk # Nothing
    /\ chk.allowed
    /\ requests_per_minute = MaxLimit
    /\ \E other \in Keys \ {chk.client_ip} :
          /\ rejected_at[other] = now
          /\ Len(Get(rate_limit_store, other)) = requests_per_minute

\* C7: every response delivered to a client carries the fixed security headers.
C7_EveryResponseHasSecurityHeaders ==
    (/\ requests_per_minute > 0
     /\ last # Nothing
     /\ IsResponse(last.out)) => HasSecurityHeaders(last.out)

\* C8: with debug off, a request from a site that is not allowed is answered 403
\* and leaves rate_limit_store as it was.
C8_RejectedBeforeRateLimit ==
    [][~debug /\ requests_per_minute > 0 =>
         \A p \in clients :
            (p.site \notin allowed_origins /\ Receive(p.client_ip, p.site, p.method))
            => /\ rate_limit_store' = rate_limit_store
               /\ last' # Nothing
               /\ IsResponse(last'.out)
               /\ last'.out.status = 403]_vars

\* C9: every request that is answered or fails has exactly one completion
\* record of LoggingMiddleware.
C9_ExactlyOneLogRecord ==
    requests_per_minute > 0 /\ last # Nothing /\ last.handler # Abandoned =>
        Cardinality(CompletionRecords(last.log)) = 1

\* C10: when the endpoint raises, LoggingMiddleware writes one error record
\* naming the exception, and that same exception leaves the outermost stage:
\* no stage answers in its place.
C10_ExceptionPropagates ==
    last # Nothing /\ IsException(last.handler) =>
        /\ last.out = last.handler
        /\ Cardinality(CompletionRecords(last.log)) = 1
        /\ last.log[Len(last.log)] \in
              {[by |-> "LoggingMiddleware", kind |-> "Error",
                error |-> last.handler.exc, took |-> d] : d \in 0..now}

C10_Witness ==
    /\ last # Nothing
    /\ IsException(last.handler)
    /\ IsException(last.out)
    /\ last.rq.start_time < now

\* C11: every request ends in one outcome.  A step that delivers an outcome
\* delivers a response or the exception the endpoint raised, nothing else; a
\* request that is not answered on arrival is suspended in the endpoint once;
\* and when every endpoint terminates, each suspended request eventually
\* leaves the pipeline with its outcome (or because its caller abandoned it).
C11_OneTerminalOutcome ==
    /\ [](last # Nothing => IsResponse(last.out) \/ IsException(last.out))
    /\ [](BagToSet(inflight) \subseteq Suspendable)
    /\ [][\/ /\ last' # Nothing
              /\ last'.handler = Nothing
              /\ inflight' = inflight
           \/ /\ last' # Nothing
              /\ last'.handler # Nothing
              /\ \E x \in BagToSet(inflight) :
                    x.rq = last'.rq /\ inflight' = inflight (-) SetToBag({x})
           \/ /\ last' = Nothing
              /\ BagCardinality(inflight') \in
                    {BagCardinality(inflight), BagCardinality(inflight) + 1}]_vars
    /\ \A x \in Suspendable :
          (x \in BagToSet(inflight)) ~>
              (last # Nothing /\ last.rq = x.rq /\ last.handler # Nothing)

C11_Witness ==
    /\ last # Nothing
    /\ last.handler = Returned
    /\ IsResponse(last.out)
    /\ inflight # EmptyBag
    /\ last.rq.current_time < now

\* the admissions of key k, among those in the window ending now, that satisfy P
Admissions(k, P(_)) == Cardinality({i \in DOMAIN recent[k] : P(recent[k][i])})

\* C12: the X-RateLimit-Remaining of an admitted request is requests_per_minute
\* minus the length of its key's sequence right after its own timestamp was
\* appended.  Before the clock reaches window_size no timestamp has left any
\* window, so recent[k] is the key's whole sequence in the order of appending:
\* behind the request's own timestamp t stood every admission earlier than t
\* and none later than t, whatever was checked while its endpoint ran.
C12_RemainingAtAdmission ==
    (/\ last # Nothing
     /\ last.handler = Returned
     /\ now < window_size) =>
        \E n \in 1..MaxLimit + 1 :
            /\ n > Admissions(last.rq.client_ip, LAMBDA s : s < last.rq.current_time)
            /\ n <= Admissions(last.rq.client_ip, LAMBDA s : s <= last.rq.current_time)
            /\ last.out.headers["X-RateLimit-Remaining"]
                  = ToString(requests_per_minute - n)

\* C13: the stages see a request in the order in which setup_middleware
\* registered them, the first-registered stage first, and see its response in
\* the opposite order: the stage that is k-th of n on the request path is
\* (n-k+1)-th on the response path.  Stated of the requests that reach the
\* endpoint, which pass every stage both ways.
C13_RegistrationOrderNesting ==
    last # Nothing /\ (last.handler = Returned \/ IsException(last.handler)) =>
        LET n == Len(Registered(debug))
        IN  /\ last.trail.request = Registered(debug)
            /\ Len(last.trail.response) = n
            /\ \A k \in 1..n :
                  last.trail.response[n - k + 1] = last.trail.request[k]

\* C14: a check that is answered 429 appends nothing: it leaves its key's
\* sequence as it was but for the timestamps window_size old or older, which
\* it removes, and adds no admission to the key's window.
C14_RejectionRecordsNothing ==
    [][chk' # Nothing /\ ~chk'.allowed =>
          /\ chk'.client_ip \in DOMAIN rate_limit_store'
          /\ rate_limit_store'[chk'.client_ip]
                = SelectSeq(Get(rate_limit_store, chk'.client_ip),
                            LAMBDA ts : now - ts < window_size)
          /\ recent' = recent]_vars

C14_Witness ==
    /\ chk # Nothing
    /\ ~chk.allowed
    /\ requests_per_minute = MaxLimit
    /\ chk.rejected_at = now - TickLen
    /\ Len(rate_limit_store[chk.client_ip]) = requests_per_minute

\* C15: a check at time now retains a stored timestamp ts exactly when
\* now - ts < window_size, so that a timestamp exactly window_size old does not
\* count; the check is admitted exactly when fewer than requests_per_minute
\* are retained.  A key whose sequence is full is therefore rejected as long as
\* its oldest timestamp is less than window_size old and admitted at the first
\* check at which that timestamp is window_size old; a key that made all its
\* admissions at one time t is rejected before t + window_size and admitted at
\* exactly t + window_size.
C15_StrictExpiry ==
    [][chk' # Nothing /\ requests_per_minute > 0 =>
          LET k == chk'.client_ip
              before == Get(rate_limit_store, k)
              kept == {i \in DOMAIN before : now - before[i] < window_size}
              after == rate_limit_store'[k]
          IN  /\ Len(after) = Cardinality(kept) + (IF chk'.allowed THEN 1 ELSE 0)
              /\ \A i \in DOMAIN before :
                    i \in kept <=> \E j \in 1..Cardinality(kept) : after[j] = before[i]
              /\ \A i \in DOMAIN before : now - before[i] = window_size => i \notin kept
              /\ chk'.allowed <=> Cardinality(kept) < requests_per_minute
              /\ Len(before) = requests_per_minute =>
                    (chk'.allowed <=> now - before[1] >= window_size)
              /\ (Len(before) = requests_per_minute /\ before[1] = before[Len(before)]) =>
                    (chk'.allowed <=> now >= before[1] + window_size)]_vars

C15_Witness ==
    /\ chk # Nothing
    /\ chk.allowed
    /\ requests_per_minute = MaxLimit
    /\ chk.rejected_at = now - TickLen
    /\ rate_limit_store[chk.client_ip] = <<now>>

\* C15 as stated: a key whose sequence became full at time t (its latest
\* timestamp) is rejected at every time before t + window_size.
C15_RejectedUntilLatestExpires ==
    [][chk' # Nothing /\ requests_per_minute > 0 =>
          LET before == Get(rate_limit_store, chk'.client_ip)
          IN  (/\ Len(before) = requests_per_minute
               /\ now < before[Len(before)] + window_size) => ~chk'.allowed]_vars

\* the time of the latest check of key k, which has been checked: the time of
\* its rejection if that check was answered 429, else the timestamp it appended
LastCheck(k) ==
    IF rejected_at[k] # Unset THEN rejected_at[k]
    ELSE rate_limit_store[k][Len(rate_limit_store[k])]

\* C16: every stored sequence is sorted ascending, and each of its timestamps
\* was inside the window at the latest check of its key: lastCheck - ts <
\* window_size.  (Timestamps are pruned by the next check, not by the clock.)
C16_SortedWithinLastWindow ==
    \A k \in DOMAIN rate_limit_store :
        /\ \A i, j \in DOMAIN rate_limit_store[k] :
              i < j => rate_limit_store[k][i] <= rate_limit_store[k][j]
        /\ \A i \in DOMAIN rate_limit_store[k] :
              /\ rate_limit_store[k][i] <= LastCheck(k)
              /\ LastCheck(k) - rate_limit_store[k][i] < window_size

C16_Witness ==
    \E k \in DOMAIN rate_limit_store :
        /\ Len(rate_limit_store[k]) >= 2
        /\ rate_limit_store[k][1] < rate_limit_store[k][2]
        /\ now - rate_limit_store[k][1] >= window_size
        /\ BagCardinality(inflight) = MaxInFlight

\* C17: no stored sequence is ever longer than requests_per_minute.
C17_StoreBounded ==
    \A k \in DOMAIN rate_limit_store :
        Len(rate_limit_store[k]) <= requests_per_minute

C17_Witness ==
    \E k \in DOMAIN rate_limit_store, other \in DOMAIN rate_limit_store :
        /\ k # other
        /\ requests_per_minute = MaxLimit
        /\ Len(rate_limit_store[k]) = requests_per_minute
        /\ rejected_at[k] # Unset
        /\ Len(rate_limit_store[other]) = requests_per_minute
        /\ now - rate_limit_store[other][1] >= window_size

\* C18: with requests_per_minute = 0 every request of every kind is answered
\* 429 on arrival, at every time; no timestamp is stored or counted and no
\* request reaches the endpoint.
C18_ZeroLimitRejectsAll ==
    requests_per_minute = 0 =>
        /\ inflight = EmptyBag
        /\ \A k \in DOMAIN rate_limit_store : rate_limit_store[k] = <<>>
        /\ \A k \in Keys : recent[k] = <<>>
        /\ chk # Nothing <=> last # Nothing
        /\ last # Nothing =>
              /\ ~chk.allowed
              /\ Is429(last.out)
              /\ last.handler = Nothing
              /\ last.rq.client_ip \in DOMAIN rate_limit_store

C18_Witness ==
    /\ requests_per_minute = 0
    /\ now >= window_size
    /\ last # Nothing
    /\ Is429(last.out)
    /\ last.rq.method = "OPTIONS"
    /\ chk.rejected_at = 0

\* C19: an admission is not taken back.  A step in which the endpoint of an
\* admitted request raises, or in which the request is abandoned, leaves
\* rate_limit_store and the admissions that count in the window as they were;
\* the request's timestamp is still in its key's sequence unless a later check
\* of that key has pruned it as window_size old or older.
C19_AdmissionNotRolledBack ==
    [][(last' # Nothing /\ (IsException(last'.handler) \/ last'.handler = Abandoned)) =>
          LET k == last'.rq.client_ip
              t == last'.rq.current_time
          IN  /\ rate_limit_store' = rate_limit_store
              /\ recent' = recent
              /\ \/ \E i \in DOMAIN rate_limit_store'[k] : rate_limit_store'[k][i] = t
                 \/ LastCheck(k) - t >= window_size
              /\ now - t < window_size =>
                    \E i \in DOMAIN recent'[k] : recent'[k][i] = t]_vars

C19_Witness ==
    /\ last # Nothing
    /\ IsException(last.handler)
    /\ requests_per_minute = MaxLimit
    /\ inflight = EmptyBag
    /\ now > last.rq.current_time
    /\ Len(rate_limit_store[last.rq.client_ip]) = requests_per_minute
    /\ rate_limit_store[last.rq.client_ip][1] = last.rq.current_time

NoRepeats(seq) == \A i, j \in DOMAIN seq : seq[i] = seq[j] => i = j

\* C20: no stage sees a request twice or a response twice, so no stage calls
\* its continuation more than once.  A request reaches the endpoint only after
\* every stage has passed it on, and then once: a check that finds the key at
\* its limit is answered on arrival without the endpoint, by the rate limiter
\* alone; a request answered by another stage never reached the endpoint
\* either; an admitted request that no stage answers is suspended in the
\* endpoint, and a delivered outcome of the endpoint ends that suspension.
C20_ContinuationAtMostOnce ==
    /\ \A x \in BagToSet(inflight) :
          x.trail.request = Stack /\ NoRepeats(x.trail.request)
    /\ last # Nothing =>
          /\ NoRepeats(last.trail.request)
          /\ NoRepeats(last.trail.response)
          /\ last.handler # Nothing => last.trail.request = Stack
          /\ Is429(last.out) =>
                last.handler = Nothing /\ last.trail.request = <<"RateLimitMiddleware">>
          /\ last.handler = Nothing =>
                \A i \in DOMAIN last.trail.response :
                    last.trail.response[i] # last.trail.request[Len(last.trail.request)]
    /\ chk # Nothing =>
          /\ chk.prior >= requests_per_minute =>
                last # Nothing /\ last.handler = Nothing
          /\ (chk.allowed /\ last = Nothing) =>
                \E x \in BagToSet(inflight) :
                    x.rq.client_ip = chk.client_ip /\ x.rq.current_time = chk.t
          /\ (chk.allowed /\ last # Nothing) =>
                last.handler = Nothing /\ ~Is429(last.out)

C20_Witness ==
    /\ last # Nothing
    /\ last.handler = Returned
    /\ requests_per_minute = MaxLimit
    /\ Len(last.trail.request) = Len(Registered(FALSE))
    /\ Len(last.trail.response) = Len(Registered(FALSE))
    /\ rejected_at[last.rq.client_ip] = now

\* the responses the security-header stage is applied to: what an endpoint
\* returns, and any response that has been delivered
InnerResponses ==
    {Response(200, headers, [detail |-> "OK"]) : headers \in HandlerHeaders}
    \cup (IF last # Nothing /\ IsResponse(last.out) THEN {last.out} ELSE {})

\* C21: the security-header stage passes every request on and answers none
\* itself; applied to a response, whatever its headers, it yields the five
\* fixed headers with their fixed values and no "server" header, leaves every
\* other header alone, and applied again it changes nothing.
C21_SecurityHeadersIdempotent ==
    /\ last # Nothing /\ last.handler = Nothing =>
          last.trail.request[Len(last.trail.request)] # "SecurityHeadersMiddleware"
    /\ last # Nothing /\ IsResponse(last.out)
          /\ (\E i \in DOMAIN last.trail.response :
                 last.trail.response[i] = "SecurityHeadersMiddleware") =>
          HasSecurityHeaders(last.out) /\ "server" \notin DOMAIN last.out.headers
    /\ \A r \in InnerResponses :
          LET c == [out |-> r]
              once == SecurityHeadersAfter(SecurityHeadersBefore(c))
              twice == SecurityHeadersAfter(SecurityHeadersBefore(once))
          IN  /\ SecurityHeadersBefore(c) = c
              /\ HasSecurityHeaders(once.out)
              /\ "server" \notin DOMAIN once.out.headers
              /\ \A h \in DOMAIN r.headers \ (DOMAIN SecurityHeaders \cup {"server"}) :
                    h \in DOMAIN once.out.headers /\ once.out.headers[h] = r.headers[h]
              /\ once.out.status = r.status /\ once.out.body = r.body
              /\ twice = once

C21_Witness ==
    /\ last # Nothing
    /\ last.handler = Returned
    /\ last.trail.response[2] = "SecurityHeadersMiddleware"
    /\ HasSecurityHeaders(last.out)
    /\ "X-RateLimit-Remaining" \in DOMAIN last.out.headers
    /\ last.out.headers["X-Frame-Options"] = "DENY"

\* C22: the keys of rate_limit_store only grow.  No step removes a key, a
\* check creates the entry of its key whether it admits or rejects, and an
\* entry whose timestamps are all gone stays, empty.
C22_KeysOnlyGrow ==
    [][/\ DOMAIN rate_limit_store \subseteq DOMAIN rate_limit_store'
       /\ chk' # Nothing => chk'.client_ip \in DOMAIN rate_limit_store'
       /\ chk' = Nothing => DOMAIN rate_limit_store' = DOMAIN rate_limit_store]_vars

C22_Witness ==
    /\ DOMAIN rate_limit_store = Keys
    /\ \E k \in Keys : rate_limit_store[k] = <<>> /\ rejected_at[k] = now
    /\ now >= window_size

\* a request arrives in this step: it is suspended, or answered on arrival
Arrival ==
    \/ BagCardinality(inflight') > BagCardinality(inflight)
    \/ last' # Nothing /\ last'.handler = Nothing

C24_RemainingInRange ==
    (/\ requests_per_minute >= 1
     /\ last # Nothing
     /\ last.handler = Returned) =>
        /\ "X-RateLimit-Remaining" \in DOMAIN last.out.headers
        /\ \E n \in 0..requests_per_minute - 1 :
              last.out.headers["X-RateLimit-Remaining"] = ToString(n)

C24_Witness ==
    /\ requests_per_minute = MaxLimit
    /\ last # Nothing
    /\ last.handler = Returned
    /\ last.out.headers["X-RateLimit-Remaining"] = ToString(requests_per_minute - 1)
    /\ \A i \in DOMAIN rate_limit_store[last.rq.client_ip] :
          rate_limit_store[last.rq.client_ip][i] # last.rq.current_time

\* the number of times t occurs in seq
Count(seq, t) == Cardinality({i \in DOMAIN seq : seq[i] = t})

\* C25: no step loses a timestamp that is still inside the window.  The
\* occurrences of a timestamp ts in a key's sequence do not become fewer
\* unless the step is a check of that key at a time now with
\* now - ts >= window_size, and an admitted check adds exactly its own
\* timestamp to what it retains.
C25_NoLostUpdate ==
    [][\A k \in DOMAIN rate_limit_store :
          \A i \in DOMAIN rate_limit_store[k] :
             LET ts == rate_limit_store[k][i]
                 was == Count(rate_limit_store[k], ts)
                 is == Count(rate_limit_store'[k], ts)
                 checked == chk' # Nothing /\ chk'.client_ip = k
             IN  /\ is < was => checked /\ now - ts >= window_size
                 /\ (checked /\ now - ts < window_size) =>
                       is = was + (IF chk'.allowed /\ ts = now THEN 1 ELSE 0)]_vars

C25_Witness ==
    /\ chk # Nothing
    /\ chk.allowed
    /\ requests_per_minute = MaxLimit
    /\ BagCardinality(inflight) = MaxInFlight
    /\ Len(rate_limit_store[chk.client_ip]) = requests_per_minute
    /\ rate_limit_store[chk.client_ip][1] = now - TickLen
    /\ now >= window_size

====
